---- MODULE Spec2Model ----
(***************************************************************************)
(* Model of gui/utils/texteditor/debugger.py: the PersistentSocketThread   *)
(* worker (a QThread owning one TCP connection and an outbound command     *)
(* list) and the DebuggerPanel controller that creates it, enqueues        *)
(* commands into it and consumes the signals it emits.                     *)
(*                                                                         *)
(* Threads: the GUI thread runs the panel's handlers one at a time; every  *)
(* worker runs run() in a thread of its own.  A worker's signals reach the *)
(* panel's slots through the GUI thread's event queue (queued connection,  *)
(* the receiver lives in another thread); send_command_signal is emitted   *)
(* and received in the GUI thread, so enqueue_command runs synchronously   *)
(* there.  list.append and list.pop(0) are single interpreter operations.  *)
(***************************************************************************)
EXTENDS Integers, Sequences, FiniteSets, TLC

\* ------------------------------------------------------------------ bounds
\* Inputs taken in one run: presses of the Connect button, calls of
\* enqueue_command (from the buttons or direct) and non-empty payloads the
\* peers deliver.
MaxInputs == 3

\* Every instance comes from a press of Connect.
Workers == 1..MaxInputs
\* self.socket_thread = None
None == 0

\* ------------------------------------------------------------- vocabulary
NEXT == "NEXT\n"
STEP == "STEP\n"
STOP == "STOP\n"
Cmds == {NEXT, STEP, STOP}

\* What one recv() can carry: the text of a JSON object, given as its
\* key/value members in document order (wf), or bytes that are not a JSON
\* document (here: the same text cut short).
Payloads ==
    { [wf |-> TRUE,  members |-> << <<"x", 1>> >>],
      [wf |-> TRUE,  members |-> << <<"y", 1>>, <<"y", 2>> >>],
      [wf |-> FALSE, members |-> << <<"x", 1>> >>] }

\* ---------------------------------------------------------------- signals
Ev(sig, msg, vars) == [sig |-> sig, msg |-> msg, vars |-> vars]
ConnectedOk        == Ev("connected_ok", "", <<>>)
Closed             == Ev("closed", "", <<>>)
ConnectionError    == Ev("error", "Connection failed", <<>>)
SendError          == Ev("error", "Send error", <<>>)
DecodeError        == Ev("error", "JSON decode error", <<>>)
SocketError        == Ev("error", "Socket error", <<>>)
SnapshotReceived(d) == Ev("vars_received", "", d)

VARIABLES
    \* ---- PersistentSocketThread, per instance
    pc,            \* where the instance's thread is
    running,       \* self.running
    connected,     \* self.connected
    sock,          \* self.socket: "none", "open", "closed"
    send_queue,    \* self.send_queue
    cmd,           \* run()'s local cmd while sendall is in flight
    \* ---- the remote end of the instance's connection
    peer,          \* "open" or "closed"
    \* ---- what the instance has done so far
    enq,           \* commands passed to enqueue_command, in call order
    popped,        \* number of send_queue.pop(0) calls
    wire,          \* commands sendall has written, in order
    rx,            \* non-empty payloads recv has returned, in order
    emitted,       \* signals emitted, in order
    ops,           \* "pop", "send", "recv": the queue pops and socket calls
                   \* of the current loop iteration
    io,            \* io.any: a sendall or recv was attempted;
                   \* io.recvSinceSend: a recv was attempted after the last sendall
    \* ---- the run so far
    inputs,        \* inputs taken
    \* ---- GUI thread
    evq,           \* queued slot invocations: [w, ev]
    gui_pc,        \* "idle", or "stop_debugger" between its two calls
    \* ---- DebuggerPanel
    socket_thread, \* self.socket_thread: None or the instance
    buttons,       \* isEnabled() of next_break, next_line and stop
    panel_widget   \* items of the QListWidget

wvars == <<pc, running, connected, sock, send_queue, cmd, peer,
           enq, popped, wire, rx, emitted, ops, io, inputs>>
gvars == <<evq, gui_pc, socket_thread, buttons, panel_widget>>
vars  == <<pc, running, connected, sock, send_queue, cmd, peer,
           enq, popped, wire, rx, emitted, ops, io, inputs,
           evq, gui_pc, socket_thread, buttons, panel_widget>>

\* ---------------------------------------------------------------- helpers
IsPrefix(s, t) == Len(s) <= Len(t) /\ SubSeq(t, 1, Len(s)) = s
Last(s) == s[Len(s)]

\* Variant: the Stop Debugger button is left enabled
setEnabled_keepsStop(v) == [next_break |-> v, next_line |-> v, stop |-> TRUE]

\* next_break_btn, next_line_btn and stop_btn .setEnabled(v), together
setEnabled(v) == [next_break |-> v, next_line |-> v, stop |-> v]

Init ==
    /\ pc = [w \in Workers |-> "none"]
    /\ running = [w \in Workers |-> TRUE]
    /\ connected = [w \in Workers |-> FALSE]
    /\ sock = [w \in Workers |-> "none"]
    /\ send_queue = [w \in Workers |-> <<>>]
    /\ cmd = [w \in Workers |-> ""]
    /\ peer = [w \in Workers |-> "open"]
    /\ enq = [w \in Workers |-> <<>>]
    /\ popped = [w \in Workers |-> 0]
    /\ wire = [w \in Workers |-> <<>>]
    /\ rx = [w \in Workers |-> <<>>]
    /\ emitted = [w \in Workers |-> <<>>]
    /\ ops = [w \in Workers |-> <<>>]
    /\ io = [w \in Workers |-> [any |-> FALSE, recvSinceSend |-> FALSE]]
    /\ inputs = 0
    /\ evq = <<>>
    /\ gui_pc = "idle"
    /\ socket_thread = None
    /\ buttons = setEnabled(FALSE)
    /\ panel_widget = <<>>


\* ------------------------------------------ PersistentSocketThread: pieces
\* Variant: the list is replaced instead of extended (self.send_queue = [cmd])
Appended_replaces(q, c) == <<c>>

\* self.send_queue.append(cmd)
Appended(q, c) == Append(q, c)

\* Variant: pop() without the index takes the newest command
PopFront_takesLast(q) == [cmd |-> q[Len(q)], rest |-> SubSeq(q, 1, Len(q) - 1)]

\* cmd = self.send_queue.pop(0): the command taken and the list left behind
PopFront(q) == [cmd |-> Head(q), rest |-> Tail(q)]

\* Variant: run() without the early return
AfterConnect_noReturn(ok) == "loop"

\* run(): "if not self.connected: return", else the loop
AfterConnect(ok) == IF ok THEN "loop" ELSE "done"

\* Variant: "while True"
AfterLoopTest_ignoresFlag(r) == "dequeue"

\* run(): "while self.running"
AfterLoopTest(r) == IF r THEN "dequeue" ELSE "teardown"

\* run(): "if self.send_queue" chooses between the send block and the receive
AfterDequeue(nonempty) == IF nonempty THEN "sendall" ELSE "recv"

\* Variant: a failed sendall is reported but the loop goes on (no break)
AfterSendall_noBreak(ok) == "recv"

\* Variant: the queue is drained ("while self.send_queue") before receiving
AfterSendall_drains(ok) == IF ok THEN "dequeue" ELSE "teardown"

\* run(): after sendall: on to the receive, or "break" out of the loop
AfterSendall(ok) == IF ok THEN "recv" ELSE "teardown"

\* Variant: a failed recv is reported but the loop goes on (no break)
AfterRecv_noBreak(fatal) == "loop"

\* run(): after the receive block: sleep and loop again (timeout or empty
\* data), or "break" (any exception but socket.timeout)
AfterRecv(fatal) == IF fatal THEN "teardown" ELSE "loop"

\* Variant: one try/except around recv and decode, so a failed decode breaks
AfterData_breaksOnDecode(decoded) == IF decoded THEN "loop" ELSE "teardown"

\* run(): after non-empty data: the inner try/except catches a failed decode
\* and the loop goes on either way
AfterData(decoded) == "loop"

\* Variant: close and closed.emit() inside the loop body
AfterTeardown_loops == "loop"

\* run(): after closed.emit() the thread function returns
AfterTeardown == "done"

\* json.loads of a JSON object: a dict keeps one entry per key, at the
\* position of the key's first member and with the value of its last one.
Put(d, k, v) ==
    IF \E i \in DOMAIN d : d[i][1] = k
    THEN [i \in DOMAIN d |-> IF d[i][1] = k THEN <<k, v>> ELSE d[i]]
    ELSE Append(d, <<k, v>>)

RECURSIVE Loads(_)
Loads(members) ==
    IF members = <<>> THEN <<>>
    ELSE LET n == Len(members)
         IN Put(Loads(SubSeq(members, 1, n - 1)), members[n][1], members[n][2])

\* json.loads(data.decode("utf-8")) returns (TRUE) or raises (FALSE)
Decodes(p) == p.wf

\* The signal the receive block emits for non-empty data
DataEvent(p) == IF Decodes(p) THEN SnapshotReceived(Loads(p.members)) ELSE DecodeError

\* signal.emit(...) in the worker thread: the panel's slot is invoked later,
\* from the GUI thread's event queue.
Emit(w, e) ==
    /\ emitted' = [emitted EXCEPT ![w] = Append(@, e)]
    /\ evq' = Append(evq, [w |-> w, ev |-> e])

\* A sendall or recv call is made on the instance's socket.
NoteOp(w, op) ==
    /\ ops' = [ops EXCEPT ![w] = Append(@, op)]
    /\ io' = [io EXCEPT ![w] = [any |-> TRUE, recvSinceSend |-> (op = "recv")]]

\* Groups of variables, for UNCHANGED
fields  == <<running, connected, sock, send_queue, cmd>>
history == <<enq, popped, wire, rx, emitted, ops, io>>
panel   == <<socket_thread, buttons, panel_widget>>

\* ------------------------------------------- PersistentSocketThread: steps
\* connect_socket(), called first thing in run()
connect_socket(w) ==
    /\ pc[w] = "start"
    /\ \E ok \in BOOLEAN :
         /\ sock' = [sock EXCEPT ![w] = IF ok THEN "open" ELSE @]
         /\ connected' = [connected EXCEPT ![w] = ok]
         /\ Emit(w, IF ok THEN ConnectedOk ELSE ConnectionError)
         /\ pc' = [pc EXCEPT ![w] = AfterConnect(ok)]
    /\ UNCHANGED <<running, send_queue, cmd, peer, inputs, gui_pc, panel>>
    /\ UNCHANGED <<enq, popped, wire, rx, ops, io>>

\* Variant: "while self.running or self.send_queue"
run_while_drains(w) ==
    /\ pc[w] = "loop"
    /\ LET go == running[w] \/ send_queue[w] # <<>>
       IN /\ pc' = [pc EXCEPT ![w] = AfterLoopTest(go)]
          /\ ops' = [ops EXCEPT ![w] = IF go THEN <<>> ELSE @]
    /\ UNCHANGED <<fields, peer, inputs, evq, gui_pc, panel>>
    /\ UNCHANGED <<enq, popped, wire, rx, emitted, io>>

\* while self.running:
run_while(w) ==
    /\ pc[w] = "loop"
    /\ pc' = [pc EXCEPT ![w] = AfterLoopTest(running[w])]
    /\ ops' = [ops EXCEPT ![w] = IF running[w] THEN <<>> ELSE @]
    /\ UNCHANGED <<fields, peer, inputs, evq, gui_pc, panel>>
    /\ UNCHANGED <<enq, popped, wire, rx, emitted, io>>

\* if self.send_queue: cmd = self.send_queue.pop(0)
run_dequeue(w) ==
    /\ pc[w] = "dequeue"
    /\ IF send_queue[w] # <<>>
       THEN /\ cmd' = [cmd EXCEPT ![w] = PopFront(send_queue[w]).cmd]
            /\ send_queue' = [send_queue EXCEPT ![w] = PopFront(send_queue[w]).rest]
            /\ popped' = [popped EXCEPT ![w] = @ + 1]
            /\ ops' = [ops EXCEPT ![w] = Append(@, "pop")]
       ELSE UNCHANGED <<cmd, send_queue, popped, ops>>
    /\ pc' = [pc EXCEPT ![w] = AfterDequeue(send_queue[w] # <<>>)]
    /\ UNCHANGED <<running, connected, sock, peer, inputs, evq, gui_pc, panel>>
    /\ UNCHANGED <<enq, wire, rx, emitted, io>>

\* self.socket.sendall(cmd) returns
run_sendall_ok(w) ==
    /\ pc[w] = "sendall"
    /\ sock[w] = "open"
    /\ wire' = [wire EXCEPT ![w] = Append(@, cmd[w])]
    /\ NoteOp(w, "send")
    /\ pc' = [pc EXCEPT ![w] = AfterSendall(TRUE)]
    /\ UNCHANGED <<fields, peer, inputs, evq, gui_pc, panel>>
    /\ UNCHANGED <<enq, popped, rx, emitted>>

\* self.socket.sendall(cmd) raises: "Send error", break
run_sendall_fail(w) ==
    /\ pc[w] = "sendall"
    /\ NoteOp(w, "send")
    /\ Emit(w, SendError)
    /\ pc' = [pc EXCEPT ![w] = AfterSendall(FALSE)]
    /\ UNCHANGED <<fields, peer, inputs, gui_pc, panel>>
    /\ UNCHANGED <<enq, popped, wire, rx>>

\* data = self.socket.recv(65536) returns non-empty data
run_recv_data(w, p) ==
    /\ pc[w] = "recv"
    /\ sock[w] = "open"
    /\ peer[w] = "open"
    /\ inputs < MaxInputs
    /\ inputs' = inputs + 1
    /\ rx' = [rx EXCEPT ![w] = Append(@, p)]
    /\ NoteOp(w, "recv")
    /\ Emit(w, DataEvent(p))
    /\ pc' = [pc EXCEPT ![w] = AfterData(Decodes(p))]
    /\ UNCHANGED <<fields, peer, gui_pc, panel>>
    /\ UNCHANGED <<enq, popped, wire>>

\* recv raises socket.timeout: pass
run_recv_timeout(w) ==
    /\ pc[w] = "recv"
    /\ sock[w] = "open"
    /\ peer[w] = "open"
    /\ NoteOp(w, "recv")
    /\ pc' = [pc EXCEPT ![w] = AfterRecv(FALSE)]
    /\ UNCHANGED <<fields, peer, inputs, evq, gui_pc, panel>>
    /\ UNCHANGED <<enq, popped, wire, rx, emitted>>

\* recv returns b"" (the peer has closed its end): "if data" is false
run_recv_empty(w) ==
    /\ pc[w] = "recv"
    /\ sock[w] = "open"
    /\ peer[w] = "closed"
    /\ NoteOp(w, "recv")
    /\ pc' = [pc EXCEPT ![w] = AfterRecv(FALSE)]
    /\ UNCHANGED <<fields, peer, inputs, evq, gui_pc, panel>>
    /\ UNCHANGED <<enq, popped, wire, rx, emitted>>

\* recv raises anything but socket.timeout: "Socket error", break
run_recv_fail(w) ==
    /\ pc[w] = "recv"
    /\ NoteOp(w, "recv")
    /\ Emit(w, SocketError)
    /\ pc' = [pc EXCEPT ![w] = AfterRecv(TRUE)]
    /\ UNCHANGED <<fields, peer, inputs, gui_pc, panel>>
    /\ UNCHANGED <<enq, popped, wire, rx>>

\* after the loop: self.socket.close(); self.closed.emit()
run_teardown(w) ==
    /\ pc[w] = "teardown"
    /\ sock' = [sock EXCEPT ![w] = IF @ = "open" THEN "closed" ELSE @]
    /\ Emit(w, Closed)
    /\ pc' = [pc EXCEPT ![w] = AfterTeardown]
    /\ UNCHANGED <<running, connected, send_queue, cmd, peer, inputs, gui_pc, panel>>
    /\ UNCHANGED <<enq, popped, wire, rx, ops, io>>

\* One step of the instance's thread
Worker(w) ==
    \/ connect_socket(w)
    \/ run_while(w)
    \/ run_dequeue(w)
    \/ run_sendall_ok(w)
    \/ run_sendall_fail(w)
    \/ \E p \in Payloads : run_recv_data(w, p)
    \/ run_recv_timeout(w)
    \/ run_recv_empty(w)
    \/ run_recv_fail(w)
    \/ run_teardown(w)

\* The remote debugger closes its end of the connection.
PeerCloses(w) ==
    /\ sock[w] = "open"
    /\ peer[w] = "open"
    /\ peer' = [peer EXCEPT ![w] = "closed"]
    /\ UNCHANGED <<pc, fields, history, inputs, evq, gui_pc, panel>>

\* ------------------------------------ PersistentSocketThread: called methods
\* Variant: commands are refused until the connection is established
enqueue_command_needsConnection(w, c) ==
    /\ connected[w]
    /\ send_queue' = [send_queue EXCEPT ![w] = Appended(@, c)]
    /\ enq' = [enq EXCEPT ![w] = Append(@, c)]
    /\ inputs' = inputs + 1

\* enqueue_command(cmd), in the caller's thread
enqueue_command(w, c) ==
    /\ send_queue' = [send_queue EXCEPT ![w] = Appended(@, c)]
    /\ enq' = [enq EXCEPT ![w] = Append(@, c)]
    /\ inputs' = inputs + 1

\* stop()
stop(w) == running' = [running EXCEPT ![w] = FALSE]

\* The controller thread calls enqueue_command of the instance it holds.
CallEnqueue(c) ==
    /\ gui_pc = "idle"
    /\ socket_thread # None
    /\ inputs < MaxInputs
    /\ enqueue_command(socket_thread, c)
    /\ UNCHANGED <<pc, running, connected, sock, cmd, peer, evq, gui_pc, panel>>
    /\ UNCHANGED <<popped, wire, rx, emitted, ops, io>>

\* The controller thread calls stop() of the instance it holds.
CallStop ==
    /\ gui_pc = "idle"
    /\ socket_thread # None
    /\ stop(socket_thread)
    /\ UNCHANGED <<pc, connected, sock, send_queue, cmd, peer, history, inputs,
                   evq, gui_pc, panel>>

\* ---------------------------------------------------- DebuggerPanel: pieces
\* One item of the list widget: the pieces of its text, in order
Item(text) == <<text>>
ErrorItem(msg) == <<"Error: ", msg>>

\* json.dumps(value, indent=2) of a number
Dumps(v) == ToString(v)

\* update_vars: f"{key}:\n{pretty}" for every entry of the dict, in its order
VarItems(d) == [i \in 1..Len(d) |-> <<d[i][1], ":\n", Dumps(d[i][2])>>]

\* Variant: update_vars without clear()
Updated_noClear(items, d) == items \o VarItems(d)

\* update_vars: the widget after clear() and one addItem per entry
Updated(items, d) == VarItems(d)

\* Variant: connect_debugger without the "if self.socket_thread" test
MayCreate_always(ref) == TRUE

\* connect_debugger: "if self.socket_thread" refuses a second instance
MayCreate(ref) == ref = None

\* send_cmd: "if self.socket_thread and self.socket_thread.connected"
MaySend(ref) == ref # None /\ connected[ref]

\* Variant: on_closed keeps the reference
Released_keeps(ref) == ref

\* on_closed: self.socket_thread = None
Released(ref) == None

\* The instance a PersistentSocketThread(host, port) call makes: the first
\* one not yet constructed
Fresh ==
    CHOOSE w \in Workers :
        pc[w] = "none" /\ \A v \in Workers : pc[v] = "none" => w <= v

AddItem(it) == panel_widget' = Append(panel_widget, it)

\* send_cmd(cmd)
send_cmd(c) ==
    IF MaySend(socket_thread)
    THEN /\ inputs < MaxInputs
         /\ enqueue_command(socket_thread, c)
         /\ UNCHANGED panel_widget
    ELSE /\ inputs < MaxInputs
         /\ AddItem(Item("Not connected."))
         /\ inputs' = inputs + 1
         /\ UNCHANGED <<send_queue, enq>>

\* ------------------------------------------- DebuggerPanel: user's actions
\* Connect button; portOk: the port field holds an integer
connect_debugger(portOk) ==
    /\ gui_pc = "idle"
    /\ inputs < MaxInputs
    /\ inputs' = inputs + 1
    /\ IF ~portOk
       THEN /\ AddItem(Item("Error: Port must be an integer."))
            /\ UNCHANGED <<pc, socket_thread>>
       ELSE IF ~MayCreate(socket_thread)
       THEN /\ AddItem(Item("Already connected."))
            /\ UNCHANGED <<pc, socket_thread>>
       ELSE /\ \E w \in Workers : pc[w] = "none"
            /\ AddItem(Item("Connecting..."))
            /\ socket_thread' = Fresh
            /\ pc' = [pc EXCEPT ![Fresh] = "start"]
    /\ UNCHANGED <<fields, peer, history, evq, gui_pc, buttons>>

\* Next Break button: send_cmd(b"NEXT\n")
click_next_break ==
    /\ gui_pc = "idle"
    /\ buttons.next_break
    /\ send_cmd(NEXT)
    /\ UNCHANGED <<pc, running, connected, sock, cmd, peer, evq, gui_pc,
                   socket_thread, buttons>>
    /\ UNCHANGED <<popped, wire, rx, emitted, ops, io>>

\* Next Line button: send_cmd(b"STEP\n")
click_next_line ==
    /\ gui_pc = "idle"
    /\ buttons.next_line
    /\ send_cmd(STEP)
    /\ UNCHANGED <<pc, running, connected, sock, cmd, peer, evq, gui_pc,
                   socket_thread, buttons>>
    /\ UNCHANGED <<popped, wire, rx, emitted, ops, io>>

\* Stop Debugger button, first call: send_cmd(b"STOP\n")
stop_debugger ==
    /\ gui_pc = "idle"
    /\ buttons.stop
    /\ socket_thread # None
    /\ send_cmd(STOP)
    /\ gui_pc' = "stop_debugger"
    /\ UNCHANGED <<pc, running, connected, sock, cmd, peer, evq,
                   socket_thread, buttons>>
    /\ UNCHANGED <<popped, wire, rx, emitted, ops, io>>

\* Stop Debugger button, second call: self.socket_thread.stop()
stop_debugger_stop ==
    /\ gui_pc = "stop_debugger"
    /\ stop(socket_thread)
    /\ gui_pc' = "idle"
    /\ UNCHANGED <<pc, connected, sock, send_queue, cmd, peer, history, inputs,
                   evq, panel>>

\* ---------------------------------------------------- DebuggerPanel: slots
Pending(sig) == gui_pc = "idle" /\ evq # <<>> /\ Head(evq).ev.sig = sig

on_connected ==
    /\ Pending("connected_ok")
    /\ evq' = Tail(evq)
    /\ AddItem(Item("Connected to debugger."))
    /\ buttons' = setEnabled(TRUE)
    /\ UNCHANGED <<pc, fields, peer, history, inputs, gui_pc, socket_thread>>

update_vars ==
    /\ Pending("vars_received")
    /\ evq' = Tail(evq)
    /\ panel_widget' = Updated(panel_widget, Head(evq).ev.vars)
    /\ UNCHANGED <<pc, fields, peer, history, inputs, gui_pc, socket_thread, buttons>>

show_error ==
    /\ Pending("error")
    /\ evq' = Tail(evq)
    /\ AddItem(ErrorItem(Head(evq).ev.msg))
    /\ UNCHANGED <<pc, fields, peer, history, inputs, gui_pc, socket_thread, buttons>>

\* The instance the panel referred to has no reference left once on_closed
\* has cleared self.socket_thread: the object and all it held are gone.
Forget(f, w, v) == IF w = None THEN f ELSE [f EXCEPT ![w] = v]

on_closed ==
    /\ Pending("closed")
    /\ evq' = Tail(evq)
    /\ AddItem(Item("Debugger connection closed."))
    /\ buttons' = setEnabled(FALSE)
    /\ socket_thread' = Released(socket_thread)
    /\ LET w == IF socket_thread' = None THEN socket_thread ELSE None
       IN /\ pc' = Forget(pc, w, "gone")
          /\ running' = Forget(running, w, TRUE)
          /\ connected' = Forget(connected, w, FALSE)
          /\ sock' = Forget(sock, w, "none")
          /\ send_queue' = Forget(send_queue, w, <<>>)
          /\ cmd' = Forget(cmd, w, "")
          /\ peer' = Forget(peer, w, "open")
          /\ enq' = Forget(enq, w, <<>>)
          /\ popped' = Forget(popped, w, 0)
          /\ wire' = Forget(wire, w, <<>>)
          /\ rx' = Forget(rx, w, <<>>)
          /\ emitted' = Forget(emitted, w, <<>>)
          /\ ops' = Forget(ops, w, <<>>)
          /\ io' = Forget(io, w, [any |-> FALSE, recvSinceSend |-> FALSE])
    /\ UNCHANGED <<inputs, gui_pc>>

\* ------------------------------------------------------------ specification
Next ==
    \/ \E w \in Workers : Worker(w)
    \/ \E w \in Workers : PeerCloses(w)
    \/ \E c \in Cmds : CallEnqueue(c)
    \/ CallStop
    \/ \E portOk \in BOOLEAN : connect_debugger(portOk)
    \/ click_next_break
    \/ click_next_line
    \/ stop_debugger
    \/ stop_debugger_stop
    \/ on_connected
    \/ update_vars
    \/ show_error
    \/ on_closed

Spec == Init /\ [][Next]_vars

\* The program as it is wired: enqueue_command and stop() are called by the
\* panel's handlers only.
PanelNext ==
    \/ \E w \in Workers : Worker(w)
    \/ \E w \in Workers : PeerCloses(w)
    \/ \E portOk \in BOOLEAN : connect_debugger(portOk)
    \/ click_next_break
    \/ click_next_line
    \/ stop_debugger
    \/ stop_debugger_stop
    \/ on_connected
    \/ update_vars
    \/ show_error
    \/ on_closed

PanelSpec == Init /\ [][PanelNext]_vars

\* Every started thread keeps being scheduled: its blocking calls (connect,
\* sendall, recv) are bounded by their timeouts and the sleep is finite.
FairSpec == Spec /\ \A w \in Workers : WF_vars(Worker(w))

\* ================================================================ claims
Range(s) == {s[i] : i \in DOMAIN s}

\* The connection states of an instance
Connecting(w) == pc[w] = "start"
Connected(w)  == pc[w] \in {"loop", "dequeue", "sendall", "recv", "teardown"}
InLoop(w)     == pc[w] \in {"loop", "dequeue", "sendall", "recv"}
IsClosed(w)   == pc[w] = "done" /\ connected[w]
Failed(w)     == pc[w] = "done" /\ ~connected[w]

\* C1: the commands written to the socket, in order, are always a prefix of
\* the commands passed to enqueue_command, in call order.
C1_WireIsPrefixOfEnqueued ==
    \A w \in Workers : IsPrefix(wire[w], enq[w])

\* Two different commands have been written by one instance.
C1_Witness ==
    \E w \in Workers : Len(wire[w]) = 2 /\ wire[w][1] # wire[w][2]

\* C2: an instance whose connect attempt failed has emitted ConnectionError
\* and nothing else, its thread has ended, and it has made no sendall and no
\* recv call and written nothing, whatever its queue holds.
C2_ConnectFailureOnly ==
    \A w \in Workers :
        (ConnectionError \in Range(emitted[w]) \/ Failed(w)) =>
            /\ emitted[w] = <<ConnectionError>>
            /\ pc[w] = "done"
            /\ sock[w] = "none"
            /\ ~io[w].any
            /\ ops[w] = <<>>
            /\ wire[w] = <<>>
            /\ popped[w] = 0

\* A failed instance with commands in its queue.
C2_Witness ==
    \E w \in Workers : Failed(w) /\ Len(send_queue[w]) = 2

\* C3: once the peer has closed the connection of a connected instance whose
\* stop() has not been called, the instance leaves the run loop and reaches
\* the Closed state (by SocketError, then Closed), unless stop() is called.
C3_PeerClosureCloses ==
    \A w \in Workers :
        (InLoop(w) /\ peer[w] = "closed" /\ running[w])
            ~> (~running[w] \/ pc[w] \in {"teardown", "done", "gone"})

\* C4: Closed is emitted at most once by an instance and is the last signal
\* it emits; an instance that has left the run loop and finished has emitted
\* it.
C4_ClosedOnceAndLast ==
    \A w \in Workers :
        /\ \A i \in 1..Len(emitted[w]) :
               emitted[w][i] = Closed => i = Len(emitted[w])
        /\ IsClosed(w) => (emitted[w] # <<>> /\ Last(emitted[w]) = Closed)
        /\ Closed \in Range(emitted[w]) => pc[w] = "done"

\* An instance that ended by a fatal error after emitting data signals.
C4_Witness ==
    \E w \in Workers :
        /\ IsClosed(w)
        /\ Len(emitted[w]) = 4
        /\ emitted[w][3] \in {SendError, SocketError}

\* The number of Closed signals an instance has emitted
NClosed(w) == Cardinality({i \in 1..Len(emitted[w]) : emitted[w][i] = Closed})

\* C5: after stop() on a connected instance the instance finishes with
\* exactly one Closed, its last signal; the stop() call itself emits nothing
\* and starts nothing, in any state of the instance, a finished instance
\* emits nothing more, stopped again or not, and a stopped instance leaves the
\* loop at its next test of the flag.
C5_StopClosesOnce ==
    /\ \A w \in Workers :
           (Connected(w) /\ ~running[w])
               ~> (pc[w] = "done" /\ NClosed(w) = 1 /\ Last(emitted[w]) = Closed)
    /\ [](\A w \in Workers : NClosed(w) <= 1)
    /\ [][\A w \in Workers :
             /\ (running[w] /\ ~running'[w]) =>
                    (emitted' = emitted /\ evq' = evq /\ pc' = pc /\ sock' = sock)
             /\ (pc[w] = "done" /\ pc'[w] = "done") =>
                    (emitted'[w] = emitted[w] /\ Len(evq') <= Len(evq))
             /\ (pc[w] = "done" /\ Failed(w)) => pc'[w] = "done"
             /\ (pc[w] = "loop" /\ ~running[w] /\ pc'[w] # "loop") =>
                    pc'[w] = "teardown"]_vars

\* A connected instance was stopped and has finished with its Closed.
C5_Witness ==
    \E w \in Workers :
        /\ IsClosed(w)
        /\ ~running[w]
        /\ Last(emitted[w]) = Closed
        /\ send_queue[w] # <<>>

\* C6: a SendError or SocketError is emitted at most once by an instance;
\* right after it the instance is on its way out of the loop, and its next
\* signal, Closed, is also its last; from the fatal error on it makes no
\* sendall and no recv call and emits no data signal; the iteration of a
\* failed sendall has no recv call.
C6_FatalErrorThenClosed ==
    /\ [](\A w \in Workers : \A i \in 1..Len(emitted[w]) :
             emitted[w][i] \in {SendError, SocketError} =>
                 \/ i = Len(emitted[w]) /\ pc[w] = "teardown"
                 \/ /\ i = Len(emitted[w]) - 1
                    /\ emitted[w][i + 1] = Closed
                    /\ pc[w] = "done")
    /\ [](\A w \in Workers :
             SendError \in Range(emitted[w]) => ops[w] = <<"pop", "send">>)
    /\ [](\A w \in Workers :
             SocketError \in Range(emitted[w]) => Last(ops[w]) = "recv")
    /\ [][\A w \in Workers :
             pc[w] = "teardown" =>
                 /\ ops'[w] = ops[w] /\ wire'[w] = wire[w] /\ rx'[w] = rx[w]
                 /\ popped'[w] = popped[w]
                 /\ pc'[w] \in {"teardown", "done"}]_vars

\* A failed sendall followed by Closed, with a command left in the queue.
C6_Witness ==
    \E w \in Workers :
        /\ IsClosed(w)
        /\ Len(emitted[w]) = 3
        /\ emitted[w][2] = SendError
        /\ emitted[w][3] = Closed
        /\ send_queue[w] # <<>>

\* The data signals (SnapshotReceived, DecodeError) among a sequence of signals
RECURSIVE DataSignals(_)
DataSignals(es) ==
    IF es = <<>> THEN <<>>
    ELSE LET e == Head(es)
         IN (IF e.sig = "vars_received" \/ e = DecodeError THEN <<e>> ELSE <<>>)
                \o DataSignals(Tail(es))

\* A recv of instance w returns a non-empty payload in this step.
Receives(w) == Len(rx'[w]) = Len(rx[w]) + 1

\* C7: the recv of a payload that is not JSON adds exactly DecodeError to the
\* instance's signals and leaves it connected, at the top of the loop, with
\* its socket open and its stop flag and queue as they were; every payload
\* received, before or after, has its own data signal: SnapshotReceived if
\* it is well-formed, DecodeError if not.
C7_DecodeErrorKeepsLoop ==
    /\ [][\A w \in Workers :
             (Receives(w) /\ ~Last(rx'[w]).wf) =>
                 /\ emitted'[w] = Append(emitted[w], DecodeError)
                 /\ pc'[w] = "loop"
                 /\ sock'[w] = "open" /\ connected'[w]
                 /\ running'[w] = running[w]
                 /\ send_queue'[w] = send_queue[w]]_vars
    /\ [](\A w \in Workers :
             LET ds == DataSignals(emitted[w])
             IN /\ Len(ds) = Len(rx[w])
                /\ \A i \in 1..Len(ds) :
                       IF rx[w][i].wf THEN ds[i].sig = "vars_received"
                                      ELSE ds[i] = DecodeError)

\* A DecodeError followed by a SnapshotReceived, the instance still in the loop.
C7_Witness ==
    \E w \in Workers :
        /\ Len(emitted[w]) = 3
        /\ emitted[w][2] = DecodeError
        /\ emitted[w][3].sig = "vars_received"
        /\ InLoop(w)

\* The members of a JSON object text as a mapping: the keys that occur, each
\* with the value of its last occurrence
DocMap(members) ==
    [k \in {members[i][1] : i \in DOMAIN members} |->
        members[CHOOSE i \in DOMAIN members :
                    /\ members[i][1] = k
                    /\ \A j \in DOMAIN members : members[j][1] = k => j <= i][2]]

\* A dict as a mapping
DictMap(d) ==
    [k \in {d[i][1] : i \in DOMAIN d} |->
        d[CHOOSE i \in DOMAIN d : d[i][1] = k][2]]

UniqueKeys(d) == \A i, j \in DOMAIN d : d[i][1] = d[j][1] => i = j

\* C8: the recv of a well-formed JSON object adds exactly one signal, a
\* SnapshotReceived whose dict has one entry per key and equals the object as
\* a mapping; when the panel handles a SnapshotReceived the list widget holds
\* afterwards exactly one item per entry of that dict and nothing else.
C8_SnapshotEmittedAndReplaces ==
    /\ [][\A w \in Workers :
             (Receives(w) /\ Last(rx'[w]).wf) =>
                 /\ Len(emitted'[w]) = Len(emitted[w]) + 1
                 /\ SubSeq(emitted'[w], 1, Len(emitted[w])) = emitted[w]
                 /\ LET e == Last(emitted'[w])
                    IN /\ e.sig = "vars_received"
                       /\ UniqueKeys(e.vars)
                       /\ DictMap(e.vars) = DocMap(Last(rx'[w]).members)]_vars
    /\ [][(evq # <<>> /\ Head(evq).ev.sig = "vars_received" /\ evq' = Tail(evq)) =>
             LET m == DictMap(Head(evq).ev.vars)
             IN /\ Len(panel_widget') = Cardinality(DOMAIN m)
                /\ Range(panel_widget') =
                       {<<k, ":\n", ToString(m[k])>> : k \in DOMAIN m}]_vars

\* Two snapshots with different keys were received and handled; the widget
\* shows the second one.
C8_Witness ==
    \E w \in Workers :
        /\ Len(rx[w]) = 2
        /\ rx[w][1] = [wf |-> TRUE, members |-> << <<"x", 1>> >>]
        /\ rx[w][2] = [wf |-> TRUE, members |-> << <<"y", 1>>, <<"y", 2>> >>]
        /\ evq = <<>>
        /\ panel_widget = << <<"y", ":\n", "2">> >>

\* C9: one loop iteration pops at most one command, makes at most one
\* sendall call (right after the pop) and at most one recv call (after
\* them); every write puts exactly one enqueued command on the wire, and
\* between two writes of an instance there is a recv call.
C9_OneCommandPerIteration ==
    /\ [](\A w \in Workers :
             ops[w] \in { <<>>, <<"recv">>, <<"pop">>, <<"pop", "send">>,
                          <<"pop", "send", "recv">> })
    /\ [][\A w \in Workers :
             Len(wire'[w]) > Len(wire[w]) =>
                 /\ Len(wire'[w]) = Len(wire[w]) + 1
                 /\ Last(wire'[w]) \in Cmds
                 /\ Last(wire'[w]) = enq[w][Len(wire'[w])]
                 /\ wire[w] # <<>> => io[w].recvSinceSend]_vars

\* One instance has popped and written two commands and has made the recv
\* call of the second one's iteration.
C9_Witness ==
    \E w \in Workers :
        /\ Len(wire[w]) = 2
        /\ popped[w] = 2
        /\ ops[w] = <<"pop", "send", "recv">>
        /\ rx[w] = <<>>

\* C10: the queue of an instance always holds exactly the commands enqueued
\* and not yet popped, in enqueue order; the commands popped are the first
\* ones enqueued, each taken once: all of them written in that order, but for
\* the last one while its sendall is in flight or after it failed.
C10_QueueLosesNothing ==
    \A w \in Workers :
        /\ popped[w] <= Len(enq[w])
        /\ send_queue[w] = SubSeq(enq[w], popped[w] + 1, Len(enq[w]))
        /\ Len(wire[w]) \in {popped[w], popped[w] - 1}
        /\ wire[w] = SubSeq(enq[w], 1, Len(wire[w]))
        /\ pc[w] = "sendall" =>
               (Len(wire[w]) = popped[w] - 1 /\ cmd[w] = enq[w][popped[w]])
        /\ (Len(wire[w]) = popped[w] - 1 /\ pc[w] # "sendall") =>
               SendError \in Range(emitted[w])

\* The first command is in flight while a different, later one waits in the
\* queue.
C10_Witness ==
    \E w \in Workers :
        /\ pc[w] = "sendall"
        /\ popped[w] = 1
        /\ Len(enq[w]) = 2
        /\ send_queue[w] = <<enq[w][2]>>
        /\ enq[w][1] # enq[w][2]

\* An instance in a non-terminal state
Live(w) == Connecting(w) \/ Connected(w)

\* C11: at most one instance is live at any time, and it is the one the
\* panel refers to; while the panel holds a reference no step constructs an
\* instance or makes the panel refer to another one, and a press of Connect
\* then only adds "Already connected." to the list and leaves every
\* instance, its queue included, as it was.
C11_AtMostOneLive ==
    /\ [](\A w \in Workers : Live(w) => w = socket_thread)
    /\ [](Cardinality({w \in Workers : Live(w)}) <= 1)
    /\ [][socket_thread # None =>
             /\ \A w \in Workers : pc[w] = "none" => pc'[w] = "none"
             /\ socket_thread' \in {socket_thread, None}]_vars
    /\ [][(socket_thread # None /\ connect_debugger(TRUE)) =>
             /\ panel_widget' = Append(panel_widget, Item("Already connected."))
             /\ UNCHANGED <<pc, fields, peer, history, evq, socket_thread,
                            buttons>>]_vars

\* Connect was pressed again while the instance was connected with a command
\* in its queue; the instance and its queue are still there.
C11_Witness ==
    /\ socket_thread # None
    /\ Connected(socket_thread)
    /\ send_queue[socket_thread] # <<>>
    /\ panel_widget # <<>>
    /\ Last(panel_widget) = Item("Already connected.")

\* The panel's slot for signal e of instance w has run.
Processed(w, e) ==
    /\ e \in Range(emitted[w])
    /\ \A i \in DOMAIN evq : evq[i] # [w |-> w, ev |-> e]

\* C12: each of the three buttons is enabled exactly when the panel refers
\* to an instance whose ConnectedOk it has handled and whose Closed it has
\* not; so they are disabled at the start, while the instance is connecting,
\* after a failed connect and once the reference is gone.
C12_ButtonsFollowConnection ==
    /\ \A b \in {"next_break", "next_line", "stop"} :
           buttons[b] <=>
               /\ socket_thread # None
               /\ Processed(socket_thread, ConnectedOk)
               /\ ~Processed(socket_thread, Closed)
    /\ LET off == setEnabled(FALSE)
       IN /\ inputs = 0 => buttons = off
          /\ socket_thread = None => buttons = off
          /\ socket_thread # None =>
                 /\ Connecting(socket_thread) => buttons = off
                 /\ Failed(socket_thread) => buttons = off

\* The instance has finished and its Closed waits in the event queue: the
\* buttons are still enabled.
C12_Witness ==
    /\ socket_thread # None
    /\ IsClosed(socket_thread)
    /\ evq = << [w |-> socket_thread, ev |-> Closed] >>
    /\ buttons = setEnabled(TRUE)

\* The panel handles the Closed at the head of the event queue in this step.
HandlesClosed == Pending("closed") /\ evq' = Tail(evq)

\* C13: the step in which the panel handles the Closed of its instance
\* clears the reference and disables the three buttons, and no other step
\* clears the reference; whenever the reference is clear a press of Connect
\* (with an integer port) can be taken, and taking it constructs and starts
\* a new instance the panel then refers to.
C13_ClosedReleasesReference ==
    /\ [][HandlesClosed =>
             (socket_thread' = None /\ buttons' = setEnabled(FALSE))]_vars
    /\ [][(socket_thread # None /\ socket_thread' = None) => HandlesClosed]_vars
    /\ []((socket_thread = None /\ gui_pc = "idle" /\ inputs < MaxInputs) =>
             ENABLED connect_debugger(TRUE))
    /\ [][(socket_thread = None /\ connect_debugger(TRUE)) =>
             /\ socket_thread' \in Workers
             /\ pc[socket_thread'] = "none"
             /\ pc'[socket_thread'] = "start"
             /\ Last(panel_widget') = Item("Connecting...")]_vars

\* After the Closed of a first instance was handled, Connect has made a
\* second instance, which is starting.
C13_Witness ==
    /\ \E w \in Workers : pc[w] = "gone"
    /\ socket_thread # None
    /\ Connecting(socket_thread)
    /\ Item("Debugger connection closed.") \in Range(panel_widget)

\* The places of run() in the order one iteration and the exit pass them
RankOf(p) ==
    CASE p = "dequeue"  -> 0
      [] p = "sendall"  -> 1
      [] p = "recv"     -> 2
      [] p = "loop"     -> 3
      [] p = "teardown" -> 4
      [] p = "done"     -> 5
      [] OTHER          -> 6

\* C14: a connected instance whose stop flag is set only moves forward
\* through the rest of its iteration, to the loop test, out of the loop and
\* to the end of run(): it starts no other iteration, so it makes at most
\* one more write (the sendall in flight) and at most one more recv; the
\* loop test leads to the teardown, which closes the socket and emits Closed;
\* from the teardown on nothing is popped or written, so the commands still
\* queued stay unwritten; and the instance does get to the end.
C14_StopIsCooperative ==
    /\ [][\A w \in Workers :
             (Connected(w) /\ ~running[w]) =>
                 /\ pc'[w] = pc[w] \/ RankOf(pc'[w]) > RankOf(pc[w])
                 /\ wire'[w] # wire[w] =>
                        /\ pc[w] = "sendall" /\ pc'[w] # pc[w]
                        /\ Len(wire'[w]) = Len(wire[w]) + 1
                 /\ ops'[w] # ops[w] =>
                        /\ pc[w] \in {"dequeue", "sendall", "recv"}
                        /\ pc'[w] # pc[w]
                        /\ ops'[w] = Append(ops[w], Last(ops'[w]))
                 /\ rx'[w] # rx[w] => (pc[w] = "recv" /\ pc'[w] # pc[w])
                 /\ (pc[w] = "loop" /\ pc'[w] # pc[w]) =>
                        /\ pc'[w] = "teardown"
                        /\ send_queue'[w] = send_queue[w]
                        /\ emitted'[w] = emitted[w]
                 /\ (pc[w] = "teardown" /\ pc'[w] # pc[w]) =>
                        /\ pc'[w] = "done"
                        /\ sock'[w] = "closed"
                        /\ emitted'[w] = Append(emitted[w], Closed)]_vars
    /\ [][\A w \in Workers :
             (pc[w] \in {"teardown", "done"} /\ pc'[w] # "gone") =>
                 /\ wire'[w] = wire[w]
                 /\ popped'[w] = popped[w]
                 /\ IsPrefix(send_queue[w], send_queue'[w])]_vars
    /\ \A w \in Workers :
           (Connected(w) /\ ~running[w])
               ~> (pc[w] = "done" /\ sock[w] = "closed"
                       /\ ~running[w] /\ Closed \in Range(emitted[w]))

\* The flag is set while an iteration has written a command and is about to
\* receive, and another command waits in the queue.
C14_Witness ==
    \E w \in Workers :
        /\ ~running[w]
        /\ pc[w] = "recv"
        /\ ops[w] = <<"pop", "send">>
        /\ send_queue[w] # <<>>

\* C15: enqueue_command can be called on the instance the panel holds
\* whatever state that instance is in, and the call appends the command to
\* the queue and moves no thread; a write happens only in the run loop of an
\* instance that has emitted ConnectedOk and not Closed; while an instance is
\* connecting, and through the connect step, its queue holds every command
\* enqueued so far, unwritten; what is written is always the beginning of
\* what was enqueued, in order; an instance whose connect failed has written
\* and popped nothing and never does.
C15_EnqueueAnytimeWriteWhenConnected ==
    /\ []((socket_thread # None /\ gui_pc = "idle" /\ inputs < MaxInputs) =>
             \A c \in Cmds : ENABLED CallEnqueue(c))
    /\ [][\A w \in Workers :
             (enq'[w] # enq[w] /\ pc'[w] # "gone") =>
                 /\ enq'[w] = Append(enq[w], Last(enq'[w]))
                 /\ send_queue'[w] = Append(send_queue[w], Last(enq'[w]))
                 /\ pc' = pc]_vars
    /\ [][\A w \in Workers :
             Len(wire'[w]) > Len(wire[w]) =>
                 /\ InLoop(w)
                 /\ connected[w]
                 /\ Head(emitted[w]) = ConnectedOk
                 /\ Closed \notin Range(emitted[w])]_vars
    /\ [](\A w \in Workers :
             (Connecting(w) \/ Failed(w)) =>
                 (send_queue[w] = enq[w] /\ wire[w] = <<>> /\ popped[w] = 0))
    /\ [][\A w \in Workers :
             (Connecting(w) /\ pc'[w] # pc[w]) =>
                 (send_queue'[w] = send_queue[w] /\ enq'[w] = enq[w])]_vars
    /\ [](\A w \in Workers : IsPrefix(wire[w], enq[w]))
    /\ [][\A w \in Workers : Failed(w) => wire'[w] = <<>>]_vars

\* Two different commands were enqueued while the instance was connecting.
C15_Witness ==
    \E w \in Workers :
        /\ Connecting(w)
        /\ Len(send_queue[w]) = 2
        /\ send_queue[w][1] # send_queue[w][2]

IsData(e) == e.sig = "vars_received" \/ e = DecodeError
IsFatal(e) == e \in {SendError, SocketError}

\* A beginning of: ConnectedOk, data signals, at most one fatal error, Closed
ConnectedShape(es) ==
    /\ es # <<>>
    /\ es[1] = ConnectedOk
    /\ \A i \in 2..Len(es) :
           /\ IsData(es[i]) \/ IsFatal(es[i]) \/ es[i] = Closed
           /\ IsData(es[i]) => IsData(es[i - 1]) \/ i = 2
           /\ IsFatal(es[i]) => IsData(es[i - 1]) \/ i = 2
           /\ es[i] = Closed => i = Len(es)

\* C16: the signals of an instance are at any time either none, or the one
\* ConnectionError of a failed connect, or a beginning of "ConnectedOk, any
\* number of SnapshotReceived/DecodeError, at most one SendError or
\* SocketError, Closed"; an instance that has returned from run() has the
\* first shape, or the second one complete with its Closed; and the thread
\* of an instance that has returned does nothing more: its place, its
\* signals and its connected flag stay as they are for as long as it exists.
C16_EventTraceShape ==
    /\ [](\A w \in Workers :
             \/ emitted[w] = <<>> /\ pc[w] \in {"none", "start", "gone"}
             \/ emitted[w] = <<ConnectionError>> /\ Failed(w)
             \/ /\ ConnectedShape(emitted[w])
                /\ IF Last(emitted[w]) = Closed THEN IsClosed(w) ELSE Connected(w))
    /\ [][\A w \in Workers :
             (pc[w] = "done" /\ pc'[w] # "gone") =>
                 /\ pc'[w] = "done"
                 /\ emitted'[w] = emitted[w]
                 /\ connected'[w] = connected[w]
                 /\ sock'[w] = sock[w]
                 /\ wire'[w] = wire[w]]_vars

\* A complete trace: ConnectedOk, two data signals one of which is a
\* DecodeError, a fatal error, Closed.
C16_Witness ==
    \E w \in Workers :
        /\ IsClosed(w)
        /\ Len(emitted[w]) = 5
        /\ DecodeError \in Range(emitted[w])
        /\ IsFatal(emitted[w][4])

\* C17: when the instance the panel refers to has failed to connect and the
\* panel has handled its ConnectionError, a press of Connect (with an integer
\* port) makes the panel refer to a new instance, which is starting.
C17_ConnectAfterFailure ==
    [][(/\ socket_thread # None
        /\ Failed(socket_thread)
        /\ Processed(socket_thread, ConnectionError)
        /\ connect_debugger(TRUE)) =>
           /\ socket_thread' \in Workers \ {socket_thread}
           /\ pc'[socket_thread'] = "start"]_vars

\* C18: an instance stopped by the Stop Debugger button (which enqueues
\* "STOP\n" and then calls stop()) that has closed its socket and emitted
\* Closed without a SendError or SocketError has written "STOP\n".
C18_StopCommandWritten ==
    \A w \in Workers :
        (/\ IsClosed(w)
         /\ STOP \in Range(enq[w])
         /\ ~running[w]
         /\ \A i \in DOMAIN emitted[w] : ~IsFatal(emitted[w][i])) =>
            STOP \in Range(wire[w])

\* A button handler calls send_cmd in this step.
CallsSendCmd == click_next_break \/ click_next_line \/ stop_debugger

\* C19: a call of send_cmd appends its command to the queue of the instance
\* the panel refers to, and shows nothing, if that instance is connected and
\* in its run loop; if the instance has finished (it has emitted Closed,
\* which the panel has not handled yet, or its connect failed) or there is
\* none, the call changes no queue and adds "Not connected." to the list.
\* (Nothing is said here of a call made between the end of the loop and
\* closed.emit().)
C19_SendOnlyToLiveConnection ==
    [][CallsSendCmd =>
          IF socket_thread # None /\ InLoop(socket_thread)
          THEN /\ Len(enq'[socket_thread]) = Len(enq[socket_thread]) + 1
               /\ send_queue'[socket_thread] =
                      Append(send_queue[socket_thread], Last(enq'[socket_thread]))
               /\ panel_widget' = panel_widget
          ELSE (socket_thread = None \/ pc[socket_thread] = "done") =>
               /\ enq' = enq
               /\ send_queue' = send_queue
               /\ panel_widget' = Append(panel_widget, Item("Not connected."))]_vars

====
